---------------------------- MODULE Spec2Model ----------------------------
(***************************************************************************)
(* pslib: a PostScript / EPS emitter.  Shapes (Rect, Line) are configured  *)
(* by builder calls and serialized to markup; a Page buffers the markup of *)
(* its shapes; a Document writes a header, the pages' frames and a trailer *)
(* to its sink.                                                            *)
(*                                                                         *)
(* Representation.  An f32 is an integer count of quarters (f32(1) = 4),   *)
(* so that the halves the code computes (width / 2.0) are exact.  Markup   *)
(* is a sequence of lines, one per "\n"-terminated line the code writes; a *)
(* line is [op |-> operator or directive, args |-> the numbers formatted   *)
(* on that line, in the order the format string places them].              *)
(***************************************************************************)
EXTENDS Integers, Sequences, FiniteSets, TLC

VARIABLES
    shape,      \* the Rect or Line being configured
    markup,     \* what to_postscript_string returned for it
    builder,    \* the DocumentBuilder
    doc,        \* the Document: doc_type, buffer (what its writer took), page_count
    result,     \* how the last Document / DocumentBuilder call ended
    built,      \* history: the builder as build consumed it
    hist        \* history: the pages handed to add, the header, failed writes

shapeVars == <<shape, markup>>

docVars == <<builder, doc, result, built, hist>>

vars == <<shape, markup, builder, doc, result, built, hist>>

-----------------------------------------------------------------------------
(* f32 helpers *)

f32(n) == 4 * n

Max(a, b) == IF a >= b THEN a ELSE b

(* clamp with the upper limit forgotten *)
clamp_lower_only(v, lo, hi) == IF v < lo THEN lo ELSE v

clamp(v, lo, hi) == IF v < lo THEN lo ELSE IF v > hi THEN hi ELSE v

Half(v) == v \div 2

PrefixMinus(v) == 0 - v

Ln(op, args) == [op |-> op, args |-> args]

ColorModes == {"RGB", "CMYK"}

TransformOrigins == {"Center", "BottomLeft", "TopLeft", "TopRight", "BottomRight"}

TransformLineOrigins == {"Left", "Center", "Right"}

-----------------------------------------------------------------------------
(* Rect: constructor and builder calls *)

Rect_new(x, y, width, height) ==
    [ kind |-> "Rect",
      fill_color_mode |-> "RGB",
      stroke_color_mode |-> "RGB",
      x |-> Max(x, f32(0)),
      y |-> Max(y, f32(0)),
      width |-> Max(width, f32(0)),
      height |-> Max(height, f32(0)),
      stroke_width |-> f32(0),
      stroke_color_rgb |-> <<f32(0), f32(0), f32(0)>>,
      fill_color_rgb |-> <<f32(0), f32(0), f32(0)>>,
      stroke_color_cmyk |-> <<f32(0), f32(0), f32(0), f32(0)>>,
      fill_color_cmyk |-> <<f32(0), f32(0), f32(0), f32(0)>>,
      do_fill |-> FALSE,
      do_rotate |-> FALSE,
      rotate |-> f32(0),
      scale |-> <<f32(1), f32(1)>>,
      do_scale |-> FALSE,
      transform_origin |-> "Center" ]

Rect_fill_rgb(self, r, g, b) ==
    [self EXCEPT !.fill_color_rgb = <<clamp(r, f32(0), f32(1)),
                                      clamp(g, f32(0), f32(1)),
                                      clamp(b, f32(0), f32(1))>>,
                 !.do_fill = TRUE,
                 !.fill_color_mode = "RGB"]

Rect_fill_cmyk(self, c, m, y, k) ==
    [self EXCEPT !.fill_color_cmyk = <<clamp(c, f32(0), f32(1)),
                                       clamp(m, f32(0), f32(1)),
                                       clamp(y, f32(0), f32(1)),
                                       clamp(k, f32(0), f32(1))>>,
                 !.do_fill = TRUE,
                 !.fill_color_mode = "CMYK"]

Rect_stroke_rgb(self, width, r, g, b) ==
    [self EXCEPT !.stroke_width = Max(width, f32(0)),
                 !.stroke_color_rgb = <<clamp(r, f32(0), f32(1)),
                                        clamp(g, f32(0), f32(1)),
                                        clamp(b, f32(0), f32(1))>>,
                 !.stroke_color_mode = "RGB"]

Rect_stroke_cmyk(self, width, c, m, y, k) ==
    [self EXCEPT !.stroke_width = Max(width, f32(0)),
                 !.stroke_color_cmyk = <<clamp(c, f32(0), f32(1)),
                                         clamp(m, f32(0), f32(1)),
                                         clamp(y, f32(0), f32(1)),
                                         clamp(k, f32(0), f32(1))>>,
                 !.stroke_color_mode = "CMYK"]

Rect_scale(self, x, y) ==
    [self EXCEPT !.scale = <<x, y>>, !.do_scale = TRUE]

Rect_set_orign(self, origin) ==
    [self EXCEPT !.transform_origin = origin]

Rect_rotate(self, angle) ==
    [self EXCEPT !.rotate = clamp(angle, f32(-360), f32(360)),
                 !.do_rotate = TRUE]

-----------------------------------------------------------------------------
(* Rect: serialization *)

Rect_origin(self) ==
    CASE self.transform_origin = "TopLeft" ->
            <<self.x, self.y + self.height>>
      [] self.transform_origin = "TopRight" ->
            <<self.x + self.width, self.y + self.height>>
      [] self.transform_origin = "BottomLeft" ->
            <<self.x, self.y>>
      [] self.transform_origin = "BottomRight" ->
            <<self.x + self.width, self.y>>
      [] self.transform_origin = "Center" ->
            <<self.x + Half(self.width), self.y + Half(self.height)>>

Rect_rotate_directive(self) ==
    IF self.do_rotate THEN <<Ln("rotate", <<self.rotate>>)>> ELSE <<>>

(* the transform block with scale written before rotate *)
Rect_transform_scale_first(self) ==
    IF self.do_rotate \/ self.do_scale
    THEN LET origin == Rect_origin(self)
         IN  <<Ln("gsave", <<>>),
               Ln("translate", <<origin[1], origin[2]>>)>>
             \o (IF self.do_scale
                 THEN <<Ln("scale", <<self.scale[1], self.scale[2]>>)>>
                 ELSE <<>>)
             \o Rect_rotate_directive(self)
             \o <<Ln("translate",
                     <<PrefixMinus(origin[1]), PrefixMinus(origin[2])>>)>>
    ELSE <<>>

Rect_transform(self) ==
    IF self.do_rotate \/ self.do_scale
    THEN LET origin == Rect_origin(self)
         IN  <<Ln("gsave", <<>>),
               Ln("translate", <<origin[1], origin[2]>>)>>
             \o Rect_rotate_directive(self)
             \o (IF self.do_scale
                 THEN <<Ln("scale", <<self.scale[1], self.scale[2]>>)>>
                 ELSE <<>>)
             \o <<Ln("translate",
                     <<PrefixMinus(origin[1]), PrefixMinus(origin[2])>>)>>
    ELSE <<>>

Rect_path(self) ==
    <<Ln("rect", <<PrefixMinus(self.width), 0, 0, PrefixMinus(self.height),
                   self.width, 0, 0, self.height, self.x, self.y>>)>>

Rect_fill(self) ==
    IF self.do_fill
    THEN <<Ln("gsave", <<>>)>>
         \o (IF self.fill_color_mode = "RGB"
             THEN <<Ln("setrgbcolor", self.fill_color_rgb)>>
             ELSE <<Ln("setcmykcolor", self.fill_color_cmyk)>>)
         \o <<Ln("fill", <<>>), Ln("grestore", <<>>)>>
    ELSE <<>>

(* the stroke block guarded by stroke_width >= 0.0 *)
Rect_stroke_width_ge(self) ==
    IF self.stroke_width >= f32(0)
    THEN <<Ln("gsave", <<>>),
           Ln("setlinewidth", <<self.stroke_width>>)>>
         \o (IF self.stroke_color_mode = "RGB"
             THEN <<Ln("setrgbcolor", self.stroke_color_rgb)>>
             ELSE <<Ln("setcmykcolor", self.stroke_color_cmyk)>>)
         \o <<Ln("stroke", <<>>), Ln("grestore", <<>>)>>
    ELSE <<>>

Rect_stroke(self) ==
    IF self.stroke_width > f32(0)
    THEN <<Ln("gsave", <<>>),
           Ln("setlinewidth", <<self.stroke_width>>)>>
         \o (IF self.stroke_color_mode = "RGB"
             THEN <<Ln("setrgbcolor", self.stroke_color_rgb)>>
             ELSE <<Ln("setcmykcolor", self.stroke_color_cmyk)>>)
         \o <<Ln("stroke", <<>>), Ln("grestore", <<>>)>>
    ELSE <<>>

(* the closing restore guarded by do_rotate alone *)
Rect_restore_rotate_only(self) ==
    IF self.do_rotate THEN <<Ln("grestore", <<>>)>> ELSE <<>>

Rect_restore(self) ==
    IF self.do_rotate \/ self.do_scale THEN <<Ln("grestore", <<>>)>> ELSE <<>>

Rect_to_postscript_string(self) ==
    Rect_transform(self) \o Rect_path(self) \o Rect_fill(self)
        \o Rect_stroke(self) \o Rect_restore(self)

-----------------------------------------------------------------------------
(* Line: constructor and builder calls *)

Line_new(x, y, length) ==
    [ kind |-> "Line",
      x |-> Max(x, f32(0)),
      y |-> Max(y, f32(0)),
      length |-> Max(length, f32(0)),
      stroke_width |-> f32(1),
      stroke_color_rgb |-> <<f32(0), f32(0), f32(0)>>,
      stroke_color_cmyk |-> <<f32(0), f32(0), f32(0), f32(0)>>,
      rotate |-> f32(0),
      scale |-> <<f32(1), f32(1)>>,
      do_scale |-> FALSE,
      do_rotate |-> FALSE,
      transform_origin |-> "Center",
      color_mode |-> "RGB" ]

Line_stroke_rgb(self, width, r, g, b) ==
    [self EXCEPT !.stroke_width = Max(width, f32(0)),
                 !.stroke_color_rgb = <<clamp(r, f32(0), f32(1)),
                                        clamp(g, f32(0), f32(1)),
                                        clamp(b, f32(0), f32(1))>>,
                 !.color_mode = "RGB"]

Line_stroke_cmyk(self, width, c, m, y, k) ==
    [self EXCEPT !.stroke_width = Max(width, f32(0)),
                 !.stroke_color_cmyk = <<clamp(c, f32(0), f32(1)),
                                         clamp(m, f32(0), f32(1)),
                                         clamp(y, f32(0), f32(1)),
                                         clamp(k, f32(0), f32(1))>>,
                 !.color_mode = "CMYK"]

Line_scale(self, x, y) ==
    [self EXCEPT !.scale = <<x, y>>, !.do_scale = TRUE]

Line_set_orign(self, origin) ==
    [self EXCEPT !.transform_origin = origin]

Line_rotate(self, angle) ==
    [self EXCEPT !.rotate = clamp(angle, f32(-360), f32(360)),
                 !.do_rotate = TRUE]

-----------------------------------------------------------------------------
(* Line: serialization *)

Line_origin(self) ==
    CASE self.transform_origin = "Left" ->
            <<self.x, self.y + Half(self.stroke_width)>>
      [] self.transform_origin = "Center" ->
            <<self.x + Half(self.length), self.y + Half(self.stroke_width)>>
      [] self.transform_origin = "Right" ->
            <<self.x + self.length, self.y + Half(self.stroke_width)>>

Line_rotate_directive(self) ==
    IF self.rotate > f32(0) /\ self.rotate < f32(360)
    THEN <<Ln("rotate", <<self.rotate>>)>>
    ELSE <<>>

Line_transform(self) ==
    IF self.do_rotate \/ self.do_scale
    THEN LET origin == Line_origin(self)
         IN  <<Ln("gsave", <<>>),
               Ln("translate", <<origin[1], origin[2]>>)>>
             \o Line_rotate_directive(self)
             \o (IF self.do_scale
                 THEN <<Ln("scale", <<self.scale[1], self.scale[2]>>)>>
                 ELSE <<>>)
             \o <<Ln("translate",
                     <<PrefixMinus(origin[1]), PrefixMinus(origin[2])>>)>>
    ELSE <<>>

Line_path(self) ==
    <<Ln("line", <<self.length, 0, self.x, self.y>>)>>

Line_stroke(self) ==
    IF self.stroke_width > f32(0)
    THEN <<Ln("gsave", <<>>),
           Ln("setlinewidth", <<self.stroke_width>>)>>
         \o (IF self.color_mode = "RGB"
             THEN <<Ln("setrgbcolor", self.stroke_color_rgb)>>
             ELSE <<Ln("setcmykcolor", self.stroke_color_cmyk)>>)
         \o <<Ln("stroke", <<>>), Ln("grestore", <<>>)>>
    ELSE <<>>

Line_restore(self) ==
    IF self.do_rotate \/ self.do_scale THEN <<Ln("grestore", <<>>)>> ELSE <<>>

Line_to_postscript_string(self) ==
    Line_transform(self) \o Line_path(self) \o Line_stroke(self)
        \o Line_restore(self)

to_postscript_string(item) ==
    IF item.kind = "Rect"
    THEN Rect_to_postscript_string(item)
    ELSE Line_to_postscript_string(item)

-----------------------------------------------------------------------------
(* ProcedureRegistry: a map from name to procedure, kept as the set of its  *)
(* values (names unique).                                                   *)

Procedure(name, body) == [name |-> name, body |-> body]

ProcedureRegistry_new == {}

add_procedure(self, procedure) ==
    {q \in self : q.name # procedure.name} \cup {procedure}

list_procedures(self) == self

with_builtins ==
    LET r1 == add_procedure(ProcedureRegistry_new, Procedure("rect",
                "/rect { newpath moveto rlineto rlineto rlineto rlineto closepath } def"))
        r2 == add_procedure(r1, Procedure("line",
                "/line { newpath moveto rlineto closepath } def"))
        r3 == add_procedure(r2, Procedure("fill_rgb",
                "/fillrgb { gsave setrgbcolor fill grestore } def"))
        r4 == add_procedure(r3, Procedure("fill_cmyk",
                "/fillcmyk { gsave setcmykcolor fill grestore } def"))
        r5 == add_procedure(r4, Procedure("stroke_rgb",
                "/strokergb { gsave setlinewidth setrgbcolor stroke grestore } def"))
    IN  add_procedure(r5, Procedure("stroke_cmyk",
                "/strokecmyk { gsave setlinewidth setcmykcolor stroke grestore } def"))

(* the name a procedure body binds when the interpreter reads it: the     *)
(* literal after the slash of "/name { ... } def"                          *)
DefinedName(body) ==
    CASE body = "/rect { newpath moveto rlineto rlineto rlineto rlineto closepath } def"
            -> "rect"
      [] body = "/line { newpath moveto rlineto closepath } def"
            -> "line"
      [] body = "/fillrgb { gsave setrgbcolor fill grestore } def"
            -> "fillrgb"
      [] body = "/fillcmyk { gsave setcmykcolor fill grestore } def"
            -> "fillcmyk"
      [] body = "/strokergb { gsave setlinewidth setrgbcolor stroke grestore } def"
            -> "strokergb"
      [] body = "/strokecmyk { gsave setlinewidth setcmykcolor stroke grestore } def"
            -> "strokecmyk"
      [] body = "/star { newpath moveto rlineto closepath } def"
            -> "star"

-----------------------------------------------------------------------------
(* Writes.  A call that writes makes its write_all calls in order; f = 0   *)
(* means every one succeeds, f = k that the k-th fails, which ends the     *)
(* call there.  The buffer of a Document holds the lines its writer took.  *)

RECURSIVE Concat(_)
Concat(chunks) ==
    IF chunks = <<>> THEN <<>> ELSE Head(chunks) \o Concat(Tail(chunks))

Written(chunks, f) ==
    Concat(SubSeq(chunks, 1, IF f = 0 THEN Len(chunks) ELSE f - 1))

(* The loop over list_procedures writes each body and a newline.  The map  *)
(* lists its values in no fixed order, so the lines of the loop are kept   *)
(* as one entry holding the set of bodies written.                         *)
Preamble(procedures) ==
    IF procedures = {}
    THEN <<>>
    ELSE <<[op |-> "procedures", args |-> <<>>,
            bodies |-> {q.body : q \in procedures}]>>

PSHeader ==
    << Ln("%!PS-Adobe-3.0", <<>>),
       Ln("%%Creator: pslib", <<>>),
       Ln("%%CreationDate:", <<>>),
       Ln("%%Pages: (atend)", <<>>),
       Ln("%%EndComments", <<>>) >>

EPSHeader(width, height) ==
    << Ln("%!PS-Adobe-3.0 EPSF-3.0", <<>>),
       Ln("%%BoundingBox:", <<0, 0, width, height>>),
       Ln("%%Creator: pslib", <<>>),
       Ln("%%CreationDate:", <<>>),
       Ln("%%EndComments", <<>>) >>

-----------------------------------------------------------------------------
(* Page *)

Page_new(width, height) ==
    [ width |-> Max(width, 1),
      height |-> Max(height, 1),
      buffer |-> <<>> ]

Page_add(self, item) ==
    [self EXCEPT !.buffer = @ \o to_postscript_string(item)]

(* fabricate with showpage written before the page's buffer *)
Page_fabricate_showpage_first(self) ==
    << << Ln("%%PageBoundingBox:", <<0, 0, self.width, self.height>>),
          Ln("setpagedevice", <<self.width, self.height>>) >>,
       << Ln("showpage", <<>>) >>,
       self.buffer >>

(* the three writes of fabricate, in order (the impl takes only the       *)
(* writer; the doc_type the trait also passes is not read)                 *)
Page_fabricate(self) ==
    << << Ln("%%PageBoundingBox:", <<0, 0, self.width, self.height>>),
          Ln("setpagedevice", <<self.width, self.height>>) >>,
       self.buffer,
       << Ln("showpage", <<>>) >> >>

-----------------------------------------------------------------------------
(* Document *)

NoDocument ==
    [state |-> "none", doc_type |-> "PS", buffer |-> <<>>, page_count |-> 0]

(* A failed write in new or build is unwrapped: the call panics, with the  *)
(* header written if it was a write of the loop that failed (done: the     *)
(* procedures written before it).                                          *)
Document_new(f, done) ==
    LET procedures == list_procedures(with_builtins)
    IN  IF f = 0
        THEN [ state |-> "open", doc_type |-> "PS",
               buffer |-> PSHeader \o Preamble(procedures),
               page_count |-> 0 ]
        ELSE [ state |-> "panicked", doc_type |-> "PS",
               buffer |-> IF f = 1 THEN <<>> ELSE PSHeader \o Preamble(done),
               page_count |-> 0 ]

(* the page-number directive written from the counter before its increment *)
PageNumber_before_increment(page_count) ==
    << Ln("%%Page:", <<page_count - 1, page_count - 1>>) >>

PageNumber(page_count) == << Ln("%%Page:", <<page_count, page_count>>) >>

(* add writing the page number from the counter, then incrementing it *)
Document_add_write_then_increment(self, item, f) ==
    LET page_count == IF self.doc_type = "PS"
                      THEN self.page_count + 1
                      ELSE self.page_count
        chunks == (IF self.doc_type = "PS"
                   THEN <<PageNumber(self.page_count)>>
                   ELSE <<>>)
                  \o Page_fabricate(item)
    IN  [self EXCEPT !.page_count = page_count,
                     !.buffer = @ \o Written(chunks, f)]

Document_add(self, item, f) ==
    LET page_count == IF self.doc_type = "PS"
                      THEN self.page_count + 1
                      ELSE self.page_count
        chunks == (IF self.doc_type = "PS"
                   THEN <<PageNumber(page_count)>>
                   ELSE <<>>)
                  \o Page_fabricate(item)
    IN  [self EXCEPT !.page_count = page_count,
                     !.buffer = @ \o Written(chunks, f)]

(* close: the write of the trailer (f = 1 fails), then flush (f = 2).     *)
(* close takes self by value: whatever it returns, the Document is gone.   *)
Document_close(self, f) ==
    [self EXCEPT !.state = "closed",
                 !.buffer = @ \o Written(<< <<Ln("%%EOF", <<>>)>> >>, f)]

-----------------------------------------------------------------------------
(* DocumentBuilder *)

NoBuilder ==
    [ state |-> "none", doc_type |-> "PS", buffer |-> "None",
      width |-> 0, height |-> 0, registry |-> ProcedureRegistry_new ]

DocumentBuilder_builder ==
    [ state |-> "open", doc_type |-> "PS", buffer |-> "None",
      width |-> 0, height |-> 0, registry |-> ProcedureRegistry_new ]

DocumentBuilder_bounding_box(self, width, height) ==
    [self EXCEPT !.width = Max(width, 1), !.height = Max(height, 1)]

DocumentBuilder_document_type(self, doc_type) ==
    [self EXCEPT !.doc_type = doc_type]

DocumentBuilder_writer(self) ==
    [self EXCEPT !.buffer = "Some"]

DocumentBuilder_load_procedures(self, registry) ==
    [self EXCEPT !.registry = registry]

DocumentBuilder_build(self, f, done) ==
    IF self.buffer = "None"
    THEN [ state |-> "panicked", doc_type |-> self.doc_type,
           buffer |-> <<>>, page_count |-> 0 ]
    ELSE LET header == IF self.doc_type = "PS"
                       THEN PSHeader
                       ELSE EPSHeader(self.width, self.height)
             procedures == list_procedures(self.registry)
         IN  IF f = 0
             THEN [ state |-> "open", doc_type |-> self.doc_type,
                    buffer |-> header \o Preamble(procedures),
                    page_count |-> 0 ]
             ELSE [ state |-> "panicked", doc_type |-> self.doc_type,
                    buffer |-> IF f = 1 THEN <<>>
                               ELSE header \o Preamble(done),
                    page_count |-> 0 ]

-----------------------------------------------------------------------------
(* Inputs of the shape builders: values inside, on and outside every clamp *)

RectInputs ==
    { <<f32(0), f32(0), f32(100), f32(100)>>,
      <<f32(50), f32(100), f32(400), f32(100)>>,
      <<f32(-5), f32(155), f32(-2), 2>> }

LineInputs ==
    { <<f32(100), f32(100), f32(100)>>,
      <<f32(-1), f32(0), f32(-4)>> }

RgbInputs ==
    { <<f32(1), f32(0), f32(0)>>,
      <<f32(2), f32(-1), 2>> }

CmykInputs ==
    { <<2, f32(1), 2, f32(0)>>,
      <<f32(-3), f32(7), 1, f32(1)>> }

WidthInputs == { f32(-2), f32(0), f32(2) }

AngleInputs ==
    { f32(-400), f32(-360), f32(-45), f32(0), f32(45), f32(360), f32(400) }

ScaleInputs ==
    { <<6, f32(1)>>,
      <<f32(-1), f32(0)>> }

NoShape == [kind |-> "None"]

NoMarkup == [some |-> FALSE, text |-> <<>>]

-----------------------------------------------------------------------------
(* Shape actions: one per constructor, builder call and serialization.     *)
(* A builder call consumes the shape and returns the changed one, so the   *)
(* markup serialized from the old value is dropped with it.                *)

NewRect ==
    /\ \E g \in RectInputs : shape' = Rect_new(g[1], g[2], g[3], g[4])
    /\ markup' = NoMarkup
    /\ UNCHANGED docVars

NewLine ==
    /\ \E g \in LineInputs : shape' = Line_new(g[1], g[2], g[3])
    /\ markup' = NoMarkup
    /\ UNCHANGED docVars

RectFillRgb ==
    /\ shape.kind = "Rect"
    /\ \E c \in RgbInputs :
        shape' = Rect_fill_rgb(shape, c[1], c[2], c[3])
    /\ markup' = NoMarkup
    /\ UNCHANGED docVars

RectFillCmyk ==
    /\ shape.kind = "Rect"
    /\ \E c \in CmykInputs :
        shape' = Rect_fill_cmyk(shape, c[1], c[2], c[3], c[4])
    /\ markup' = NoMarkup
    /\ UNCHANGED docVars

RectStrokeRgb ==
    /\ shape.kind = "Rect"
    /\ \E w \in WidthInputs, c \in RgbInputs :
        shape' = Rect_stroke_rgb(shape, w, c[1], c[2], c[3])
    /\ markup' = NoMarkup
    /\ UNCHANGED docVars

RectStrokeCmyk ==
    /\ shape.kind = "Rect"
    /\ \E w \in WidthInputs, c \in CmykInputs :
        shape' = Rect_stroke_cmyk(shape, w, c[1], c[2], c[3], c[4])
    /\ markup' = NoMarkup
    /\ UNCHANGED docVars

RectScale ==
    /\ shape.kind = "Rect"
    /\ \E s \in ScaleInputs : shape' = Rect_scale(shape, s[1], s[2])
    /\ markup' = NoMarkup
    /\ UNCHANGED docVars

RectSetOrigin ==
    /\ shape.kind = "Rect"
    /\ \E o \in TransformOrigins : shape' = Rect_set_orign(shape, o)
    /\ markup' = NoMarkup
    /\ UNCHANGED docVars

RectRotate ==
    /\ shape.kind = "Rect"
    /\ \E a \in AngleInputs : shape' = Rect_rotate(shape, a)
    /\ markup' = NoMarkup
    /\ UNCHANGED docVars

RectSerialize ==
    /\ shape.kind = "Rect"
    /\ markup' = [some |-> TRUE, text |-> Rect_to_postscript_string(shape)]
    /\ UNCHANGED shape
    /\ UNCHANGED docVars

LineStrokeRgb ==
    /\ shape.kind = "Line"
    /\ \E w \in WidthInputs, c \in RgbInputs :
        shape' = Line_stroke_rgb(shape, w, c[1], c[2], c[3])
    /\ markup' = NoMarkup
    /\ UNCHANGED docVars

LineStrokeCmyk ==
    /\ shape.kind = "Line"
    /\ \E w \in WidthInputs, c \in CmykInputs :
        shape' = Line_stroke_cmyk(shape, w, c[1], c[2], c[3], c[4])
    /\ markup' = NoMarkup
    /\ UNCHANGED docVars

LineScale ==
    /\ shape.kind = "Line"
    /\ \E s \in ScaleInputs : shape' = Line_scale(shape, s[1], s[2])
    /\ markup' = NoMarkup
    /\ UNCHANGED docVars

LineSetOrigin ==
    /\ shape.kind = "Line"
    /\ \E o \in TransformLineOrigins : shape' = Line_set_orign(shape, o)
    /\ markup' = NoMarkup
    /\ UNCHANGED docVars

LineRotate ==
    /\ shape.kind = "Line"
    /\ \E a \in AngleInputs : shape' = Line_rotate(shape, a)
    /\ markup' = NoMarkup
    /\ UNCHANGED docVars

LineSerialize ==
    /\ shape.kind = "Line"
    /\ markup' = [some |-> TRUE, text |-> Line_to_postscript_string(shape)]
    /\ UNCHANGED shape
    /\ UNCHANGED docVars

NextShape ==
    \/ NewRect
    \/ NewLine
    \/ RectFillRgb
    \/ RectFillCmyk
    \/ RectStrokeRgb
    \/ RectStrokeCmyk
    \/ RectScale
    \/ RectSetOrigin
    \/ RectRotate
    \/ RectSerialize
    \/ LineStrokeRgb
    \/ LineStrokeCmyk
    \/ LineScale
    \/ LineSetOrigin
    \/ LineRotate
    \/ LineSerialize


-----------------------------------------------------------------------------
(* Inputs and bounds of the document side *)

MaxPages == 2

MaxFaults == 1

BoundingBoxInputs == { <<500, 300>>, <<-7, 0>> }

DocumentTypes == {"PS", "EPS"}

(* the registry of a caller who defines a procedure of their own *)
CustomRegistry ==
    add_procedure(ProcedureRegistry_new,
                  Procedure("star", "/star { newpath moveto rlineto closepath } def"))

RegistryInputs == { with_builtins, CustomRegistry }

(* the line of test_ps_file and the rect of test_eps_file *)
SampleLine ==
    Line_stroke_cmyk(
        Line_set_orign(
            Line_rotate(Line_new(f32(100), f32(100), f32(100)), f32(45)),
            "Left"),
        f32(2), f32(1), f32(0), f32(0), 1)

SampleRect ==
    Rect_fill_cmyk(Rect_new(f32(50), f32(100), f32(400), f32(100)),
                   2, f32(1), 2, f32(0))

(* the pages a caller hands to add: the dimensions given to Page::new and  *)
(* the shapes given to Page::add, in call order                            *)
PageInputs ==
    { [width |-> 400, height |-> 400, items |-> <<SampleLine, SampleRect>>],
      [width |-> 500, height |-> 300, items |-> <<SampleRect, SampleLine>>],
      [width |-> 500, height |-> 300, items |-> <<SampleRect>>],
      [width |-> 0, height |-> -3, items |-> <<>>] }

RECURSIVE AddAll(_, _)
AddAll(self, items) ==
    IF items = <<>>
    THEN self
    ELSE AddAll(Page_add(self, Head(items)), Tail(items))

(* let mut page = Page::new(width, height); page.add(&item) for each item *)
MakePage(in) == AddAll(Page_new(in.width, in.height), in.items)

(* how the last call on a Document or build ended: the call, which of its  *)
(* writes failed (0: none) and how many lines its writer took              *)
Call(op, f, wrote) == [op |-> op, f |-> f, wrote |-> wrote]

NoHist ==
    [ adds |-> <<>>, header |-> <<>>, faults |-> 0, bbox_called |-> FALSE,
      last |-> Call("none", 0, 0) ]

(* which write of a call with n writes may fail *)
Faults(n) == {0} \cup (IF hist.faults < MaxFaults THEN 1..n ELSE {})

Failed(f) == IF f = 0 THEN 0 ELSE 1

(* the procedures the loop of new / build wrote before one of its writes failed *)
Done(procedures, f) ==
    IF f = 2 THEN (SUBSET procedures) \ {procedures} ELSE {{}}

-----------------------------------------------------------------------------
(* Document-side actions *)

Init ==
    /\ shape = NoShape
    /\ markup = NoMarkup
    /\ builder = NoBuilder
    /\ doc = NoDocument
    /\ result = "none"
    /\ built = NoBuilder
    /\ hist = NoHist

DocumentNew ==
    /\ doc.state = "none"
    /\ builder.state = "none"
    /\ \E f \in Faults(IF with_builtins = {} THEN 1 ELSE 2) :
       \E done \in Done(list_procedures(with_builtins), f) :
          /\ doc' = Document_new(f, done)
          /\ result' = IF f = 0 THEN "returned" ELSE "panic"
          /\ hist' = [hist EXCEPT !.header = doc'.buffer,
                                  !.faults = @ + Failed(f),
                                  !.last = Call("new", f, Len(doc'.buffer))]
    /\ UNCHANGED <<builder, built>>
    /\ UNCHANGED shapeVars

BuilderNew ==
    /\ doc.state = "none"
    /\ builder.state = "none"
    /\ builder' = DocumentBuilder_builder
    /\ UNCHANGED <<doc, result, built, hist>>
    /\ UNCHANGED shapeVars

BuilderBoundingBox ==
    /\ builder.state = "open"
    /\ \E b \in BoundingBoxInputs :
          builder' = DocumentBuilder_bounding_box(builder, b[1], b[2])
    /\ hist' = [hist EXCEPT !.bbox_called = TRUE]
    /\ UNCHANGED <<doc, result, built>>
    /\ UNCHANGED shapeVars

BuilderDocumentType ==
    /\ builder.state = "open"
    /\ \E t \in DocumentTypes :
          builder' = DocumentBuilder_document_type(builder, t)
    /\ UNCHANGED <<doc, result, built, hist>>
    /\ UNCHANGED shapeVars

BuilderWriter ==
    /\ builder.state = "open"
    /\ builder' = DocumentBuilder_writer(builder)
    /\ UNCHANGED <<doc, result, built, hist>>
    /\ UNCHANGED shapeVars

BuilderLoadProcedures ==
    /\ builder.state = "open"
    /\ \E r \in RegistryInputs :
          builder' = DocumentBuilder_load_procedures(builder, r)
    /\ UNCHANGED <<doc, result, built, hist>>
    /\ UNCHANGED shapeVars

BuilderBuild ==
    /\ builder.state = "open"
    /\ \E f \in (IF builder.buffer = "None"
                 THEN {0}
                 ELSE Faults(IF builder.registry = {} THEN 1 ELSE 2)) :
       \E done \in Done(list_procedures(builder.registry), f) :
          /\ doc' = DocumentBuilder_build(builder, f, done)
          /\ result' = IF doc'.state = "open" THEN "returned" ELSE "panic"
          /\ hist' = [hist EXCEPT !.header = doc'.buffer,
                                  !.faults = @ + Failed(f),
                                  !.last = Call("build", f, Len(doc'.buffer))]
    /\ built' = builder
    /\ builder' = [NoBuilder EXCEPT !.state = "consumed"]
    /\ UNCHANGED shapeVars

(* The caller builds a page (Page::new, then Page::add per shape) and     *)
(* hands it to add.  A Page is the caller's own value until then, so its   *)
(* construction is part of the step.                                       *)
DocumentAdd ==
    /\ doc.state = "open"
    /\ Len(hist.adds) < MaxPages
    /\ \E in \in PageInputs :
       \E f \in Faults(IF doc.doc_type = "PS" THEN 4 ELSE 3) :
          /\ doc' = Document_add(doc, MakePage(in), f)
          /\ result' = IF f = 0 THEN "Ok" ELSE "Err"
          /\ hist' = [hist EXCEPT !.adds = Append(@, in),
                                  !.faults = @ + Failed(f),
                                  !.last = Call("add", f,
                                      Len(doc'.buffer) - Len(doc.buffer))]
    /\ UNCHANGED <<builder, built>>
    /\ UNCHANGED shapeVars

DocumentClose ==
    /\ doc.state = "open"
    /\ \E f \in Faults(2) :
          /\ doc' = Document_close(doc, f)
          /\ result' = IF f = 0 THEN "Ok" ELSE "Err"
          /\ hist' = [hist EXCEPT !.faults = @ + Failed(f),
                                  !.last = Call("close", f,
                                      Len(doc'.buffer) - Len(doc.buffer))]
    /\ UNCHANGED <<builder, built>>
    /\ UNCHANGED shapeVars

Next ==
    \/ DocumentNew
    \/ BuilderNew
    \/ BuilderBoundingBox
    \/ BuilderDocumentType
    \/ BuilderWriter
    \/ BuilderLoadProcedures
    \/ BuilderBuild
    \/ DocumentAdd
    \/ DocumentClose

Spec == Init /\ [][Next]_vars

SpecShape == Init /\ [][NextShape]_vars

-----------------------------------------------------------------------------
(* Reading markup *)

Count(op, m) == Cardinality({i \in 1..Len(m) : m[i].op = op})

Positions(op, m) == {i \in 1..Len(m) : m[i].op = op}

Depth(m, i) ==
    Cardinality({j \in 1..i : m[j].op = "gsave"})
        - Cardinality({j \in 1..i : m[j].op = "grestore"})

ColorOps == {"setrgbcolor", "setcmykcolor"}

PathOps == {"rect", "line"}

InRange(v, lo, hi) == lo <= v /\ v <= hi

-----------------------------------------------------------------------------
(* C1: in the markup of every Rect and Line, scanned left to right, the    *)
(* number of grestore never exceeds the number of gsave, and at the end    *)
(* the two are equal.                                                      *)
C1_SaveRestoreBalanced ==
    markup.some =>
        /\ \A i \in 0..Len(markup.text) : Depth(markup.text, i) >= 0
        /\ Depth(markup.text, Len(markup.text)) = 0

C1_Witness ==
    /\ markup.some
    /\ shape.kind = "Rect"
    /\ shape.do_scale /\ ~shape.do_rotate
    /\ shape.do_fill
    /\ shape.stroke_width > f32(0)
    /\ Count("gsave", markup.text) = 3
    /\ Count("grestore", markup.text) = 3

(* C2: the angle of every emitted rotate directive lies in [-360, 360],    *)
(* and a shape whose rotation clamps to 0, 360 or -360 is serialized       *)
(* without a rotate directive.                                             *)
C2_RotateInRangeAndNoOpOmitted ==
    markup.some =>
        /\ \A i \in Positions("rotate", markup.text) :
              InRange(markup.text[i].args[1], f32(-360), f32(360))
        /\ (shape.do_rotate /\ shape.rotate \in {f32(0), f32(360), f32(-360)})
              => Count("rotate", markup.text) = 0

(* C3: a Rect or Line rotated by a clamped angle other than 0, 360 and     *)
(* -360 is serialized with exactly one rotate directive, which carries the *)
(* clamped angle.                                                          *)
C3_RotateEmittedVerbatim ==
    (markup.some /\ shape.do_rotate
        /\ shape.rotate \notin {f32(0), f32(360), f32(-360)})
    => /\ Count("rotate", markup.text) = 1
       /\ \A i \in Positions("rotate", markup.text) :
             markup.text[i].args = <<shape.rotate>>

StoredChannels(s) ==
    IF s.kind = "Rect"
    THEN {s.fill_color_rgb, s.fill_color_cmyk,
          s.stroke_color_rgb, s.stroke_color_cmyk}
    ELSE IF s.kind = "Line"
    THEN {s.stroke_color_rgb, s.stroke_color_cmyk}
    ELSE {}

(* C4: every channel stored in a shape, and every channel emitted before   *)
(* setrgbcolor or setcmykcolor, lies in [0, 1]; setrgbcolor is given 3     *)
(* channels and setcmykcolor 4.                                            *)
C4_ChannelsClamped ==
    /\ \A cs \in StoredChannels(shape) : \A k \in 1..Len(cs) :
          InRange(cs[k], f32(0), f32(1))
    /\ markup.some =>
          \A i \in 1..Len(markup.text) :
             LET l == markup.text[i]
             IN  l.op \in ColorOps =>
                   /\ Len(l.args) = (IF l.op = "setrgbcolor" THEN 3 ELSE 4)
                   /\ \A k \in 1..Len(l.args) :
                         InRange(l.args[k], f32(0), f32(1))

C4_Witness ==
    /\ markup.some
    /\ shape.kind = "Line"
    /\ \E i \in 1..Len(markup.text) :
          /\ markup.text[i].op = "setcmykcolor"
          /\ markup.text[i].args = <<f32(0), f32(1), 1, f32(1)>>
    /\ shape.stroke_color_rgb = <<f32(1), f32(0), 2>>

(* A paint block ending at line i of m: gsave, the lines named by ops in   *)
(* that order, then grestore, all adjacent.                                *)
IsBlock(m, first, ops) ==
    /\ first >= 1
    /\ first + Len(ops) + 1 <= Len(m)
    /\ m[first].op = "gsave"
    /\ \A k \in 1..Len(ops) : m[first + k].op \in ops[k]
    /\ m[first + Len(ops) + 1].op = "grestore"

(* C7: the markup of a Rect holds exactly one fill block (gsave, color     *)
(* operator, fill, grestore) if a fill was configured and none otherwise,  *)
(* exactly one stroke block (gsave, setlinewidth, color operator, stroke,  *)
(* grestore) if the stroke width is > 0 and none otherwise; the fill block *)
(* precedes the stroke block and both follow the rect path operator.       *)
C7_RectFillStrokeBlocks ==
    (markup.some /\ shape.kind = "Rect") =>
        LET m == markup.text
            fills == Positions("fill", m)
            strokes == Positions("stroke", m)
            paths == Positions("rect", m)
        IN  /\ Cardinality(paths) = 1
            /\ Cardinality(fills) = (IF shape.do_fill THEN 1 ELSE 0)
            /\ Cardinality(strokes) =
                  (IF shape.stroke_width > f32(0) THEN 1 ELSE 0)
            /\ \A i \in fills : IsBlock(m, i - 2, <<ColorOps, {"fill"}>>)
            /\ \A j \in strokes :
                  IsBlock(m, j - 3, <<{"setlinewidth"}, ColorOps, {"stroke"}>>)
            /\ \A i \in fills : \A p \in paths : p < i - 2
            /\ \A j \in strokes : \A p \in paths : p < j - 3
            /\ \A i \in fills : \A j \in strokes : i + 1 < j - 3
            /\ Count("setrgbcolor", m) + Count("setcmykcolor", m)
                  = Cardinality(fills) + Cardinality(strokes)
            /\ Count("setlinewidth", m) = Cardinality(strokes)

C7_Witness ==
    /\ markup.some
    /\ shape = Rect_fill_cmyk(
                  Rect_new(f32(50), f32(100), f32(400), f32(100)),
                  2, f32(1), 2, f32(0))
    /\ Count("fill", markup.text) = 1
    /\ Count("stroke", markup.text) = 0

(* The anchor of a shape, from its geometry and origin variant. *)
Anchor(s) ==
    IF s.kind = "Rect"
    THEN << s.x + (IF s.transform_origin \in {"TopRight", "BottomRight"}
                   THEN s.width
                   ELSE IF s.transform_origin = "Center"
                   THEN Half(s.width) ELSE 0),
            s.y + (IF s.transform_origin \in {"TopLeft", "TopRight"}
                   THEN s.height
                   ELSE IF s.transform_origin = "Center"
                   THEN Half(s.height) ELSE 0) >>
    ELSE << s.x + (IF s.transform_origin = "Right" THEN s.length
                   ELSE IF s.transform_origin = "Center"
                   THEN Half(s.length) ELSE 0),
            s.y + Half(s.stroke_width) >>

IsRotate(l) == l.op = "rotate"

(* C8: with rotation or scale enabled the markup of a Rect or Line begins  *)
(* with gsave, translate to the anchor, rotate (if emitted), scale (if     *)
(* enabled, with the factors as given), translate by the negated anchor,   *)
(* in that order and before the path operator, and ends with the matching  *)
(* grestore after fill and stroke; with neither enabled it holds no        *)
(* translate, rotate or scale and no gsave of a transform block.           *)
C8_TransformBlockOrder ==
    markup.some =>
        LET m == markup.text
            a == Anchor(shape)
            block == <<Ln("gsave", <<>>), Ln("translate", <<a[1], a[2]>>)>>
                     \o SelectSeq(m, IsRotate)
                     \o (IF shape.do_scale
                         THEN <<Ln("scale", shape.scale)>> ELSE <<>>)
                     \o <<Ln("translate", <<0 - a[1], 0 - a[2]>>)>>
            n == Len(block)
        IN  IF shape.do_rotate \/ shape.do_scale
            THEN /\ Len(m) >= n + 2
                 /\ SubSeq(m, 1, n) = block
                 /\ m[n + 1].op \in PathOps
                 /\ Count("rotate", m) <= 1
                 /\ Count("translate", m) = 2
                 /\ Count("scale", m) = (IF shape.do_scale THEN 1 ELSE 0)
                 /\ m[Len(m)].op = "grestore"
                 /\ \A i \in 1..Len(m) :
                       m[i].op \in {"fill", "stroke"} => i + 1 < Len(m)
                 /\ \A i \in 1..(Len(m) - 1) : Depth(m, i) >= 1
            ELSE /\ m[1].op \in PathOps
                 /\ Count("translate", m) = 0
                 /\ Count("rotate", m) = 0
                 /\ Count("scale", m) = 0
                 /\ Count("gsave", m) = Count("fill", m) + Count("stroke", m)

C8_Witness ==
    /\ markup.some
    /\ shape.kind = "Rect"
    /\ shape.do_rotate /\ shape.do_scale
    /\ shape.transform_origin = "TopRight"
    /\ shape.x = f32(50) /\ shape.width = f32(400)
    /\ shape.scale = <<f32(-1), f32(0)>>
    /\ shape.rotate = f32(-45)
    /\ SubSeq(markup.text, 1, 5) =
          << Ln("gsave", <<>>),
             Ln("translate", <<f32(450), f32(200)>>),
             Ln("rotate", <<f32(-45)>>),
             Ln("scale", <<f32(-1), f32(0)>>),
             Ln("translate", <<f32(-450), f32(-200)>>) >>

-----------------------------------------------------------------------------
(* Reading a document's buffer against the calls made *)

Live == doc.state \in {"open", "closed"}

WasBuilt == built.state = "open"

AtLeastOne(v) == IF v < 1 THEN 1 ELSE v

RECURSIVE ShapesMarkup(_)
ShapesMarkup(items) ==
    IF items = <<>>
    THEN <<>>
    ELSE to_postscript_string(Head(items)) \o ShapesMarkup(Tail(items))

(* the frame of a page made from the input in *)
ExpectedFrame(in) ==
    << Ln("%%PageBoundingBox:",
          <<0, 0, AtLeastOne(in.width), AtLeastOne(in.height)>>),
       Ln("setpagedevice", <<AtLeastOne(in.width), AtLeastOne(in.height)>>) >>
    \o ShapesMarkup(in.items)
    \o << Ln("showpage", <<>>) >>

RECURSIVE ExpectedPages(_, _, _)
ExpectedPages(adds, k, numbered) ==
    IF k > Len(adds)
    THEN <<>>
    ELSE (IF numbered THEN <<Ln("%%Page:", <<k, k>>)>> ELSE <<>>)
         \o ExpectedFrame(adds[k])
         \o ExpectedPages(adds, k + 1, numbered)

IsPageNumber(l) == l.op = "%%Page:"

(* C5: after n add calls on a multi-page Document the buffer holds exactly *)
(* n page-number directives, the k-th reading %%Page: k k, in call order,  *)
(* each directly before the frame of the k-th page added, whatever the     *)
(* pages hold (on runs in which no write failed).                          *)
C5_PageNumbersInOrder ==
    (Live /\ doc.doc_type = "PS" /\ hist.faults = 0) =>
        LET b == doc.buffer
            n == Len(hist.adds)
        IN  /\ SelectSeq(b, IsPageNumber)
                  = [k \in 1..n |-> Ln("%%Page:", <<k, k>>)]
            /\ \A i \in Positions("%%Page:", b) :
                  LET frame == ExpectedFrame(hist.adds[b[i].args[1]])
                  IN  /\ i + Len(frame) <= Len(b)
                      /\ SubSeq(b, i + 1, i + Len(frame)) = frame

C5_Witness ==
    /\ doc.state = "open"
    /\ doc.doc_type = "PS"
    /\ hist.faults = 0
    /\ Len(hist.adds) = 2
    /\ hist.adds[1].items = <<SampleLine, SampleRect>>
    /\ hist.adds[2].items = <<>>
    /\ SelectSeq(doc.buffer, IsPageNumber)
          = << Ln("%%Page:", <<1, 1>>), Ln("%%Page:", <<2, 2>>) >>

(* C6: the header of a single-page (EPS) Document built through the        *)
(* builder declares %%BoundingBox: 0 0 w h with the builder's bounding     *)
(* box, declares %%Pages: 1 and not %%Pages: (atend), and no add on it     *)
(* writes a %%Page: directive.                                             *)
C6_EpsHeader ==
    (Live /\ WasBuilt /\ doc.doc_type = "EPS" /\ hist.faults = 0) =>
        /\ Count("%%BoundingBox:", doc.buffer) = 1
        /\ \A i \in Positions("%%BoundingBox:", doc.buffer) :
              /\ i <= Len(hist.header)
              /\ doc.buffer[i].args = <<0, 0, built.width, built.height>>
        /\ Count("%%Pages: (atend)", doc.buffer) = 0
        /\ Count("%%Page:", doc.buffer) = 0
        /\ Count("%%Pages: 1", doc.buffer) = 1

(* the part of C6 the code does meet, for the record of what fails *)
EpsHeaderWithoutPages ==
    (Live /\ WasBuilt /\ doc.doc_type = "EPS" /\ hist.faults = 0) =>
        /\ Count("%%BoundingBox:", doc.buffer) = 1
        /\ \A i \in Positions("%%BoundingBox:", doc.buffer) :
              /\ i <= Len(hist.header)
              /\ doc.buffer[i].args = <<0, 0, built.width, built.height>>
        /\ Count("%%Pages: (atend)", doc.buffer) = 0
        /\ Count("%%Page:", doc.buffer) = 0

IsPreamble(l) == l.op = "procedures"

IsHeaderLine(l) == l.op # "procedures"

(* C9: the buffer of a Document is the header and procedure preamble, then *)
(* per add in call order the page's frame (page bounding box and page size *)
(* with the page's width and height, the serializations of its shapes in   *)
(* the order they were added, showpage), each frame of the multi-page kind *)
(* after its page number, then, once closed, one %%EOF as the last line    *)
(* (on runs in which no write failed).                                     *)
C9_DocumentLayout ==
    (Live /\ hist.faults = 0) =>
        LET h == hist.header
            head == SelectSeq(h, IsHeaderLine)
        IN  /\ Len(head) = 5
            /\ head[1].op \in {"%!PS-Adobe-3.0", "%!PS-Adobe-3.0 EPSF-3.0"}
            /\ head[5].op = "%%EndComments"
            /\ h = head \o SelectSeq(h, IsPreamble)
            /\ Len(SelectSeq(h, IsPreamble)) <= 1
            /\ doc.buffer
                  = h \o ExpectedPages(hist.adds, 1, doc.doc_type = "PS")
                      \o (IF doc.state = "closed"
                          THEN <<Ln("%%EOF", <<>>)>> ELSE <<>>)

C9_Witness ==
    /\ doc.state = "closed"
    /\ hist.faults = 0
    /\ Len(hist.adds) = 2
    /\ hist.adds[1].items = <<SampleRect, SampleLine>>
    /\ hist.adds[2].items = <<SampleLine, SampleRect>>
    /\ Count("showpage", doc.buffer) = 2
    /\ doc.buffer[Len(doc.buffer)] = Ln("%%EOF", <<>>)

(* C10: build aborts, returning no Document and writing nothing, when no   *)
(* writer was assigned, and when the document type is EPS and bounding_box *)
(* was never called.                                                       *)
C10_BuildAbortsOnMissingPrecondition ==
    (WasBuilt /\ (built.buffer = "None"
                  \/ (built.doc_type = "EPS" /\ ~hist.bbox_called)))
    => (doc.state = "panicked" /\ doc.buffer = <<>>)

(* the part of C10 the code does meet: no writer, no Document *)
BuildAbortsWithoutWriter ==
    (WasBuilt /\ built.buffer = "None")
    => (doc.state = "panicked" /\ doc.buffer = <<>>)

-----------------------------------------------------------------------------
(* Sink failures *)

WriteFailed == hist.last.f # 0

(* C11: a failed write of the sink, in whichever call it happens (the      *)
(* header or preamble writes of Document::new and build, the page-number   *)
(* and frame writes of add, the trailer write and the flush of close),     *)
(* ends that call with an error value returned to the caller and never     *)
(* with a panic; and when the page-number write of add fails, no line of   *)
(* the page's frame reaches the sink.                                      *)
C11_WriteFailuresReturned ==
    /\ WriteFailed => result = "Err"
    /\ (hist.last.op = "add" /\ doc.doc_type = "PS" /\ hist.last.f = 1)
          => hist.last.wrote = 0

(* the part of C11 the code does meet: add and close hand the failure back *)
AddCloseFailuresReturned ==
    /\ (WriteFailed /\ hist.last.op \in {"add", "close"}) => result = "Err"
    /\ (hist.last.op = "add" /\ doc.doc_type = "PS" /\ hist.last.f = 1)
          => hist.last.wrote = 0

(* the part it does not: a failed write in new or build is unwrapped *)
NewBuildFailuresPanic ==
    (WriteFailed /\ hist.last.op \in {"new", "build"}) => result = "panic"

-----------------------------------------------------------------------------
(* The page counter and the page-number directive *)

(* the last call was an add on the multi-page kind whose page-number write *)
(* succeeded                                                               *)
NumberedAdd ==
    /\ Live /\ doc.doc_type = "PS"
    /\ hist.last.op = "add" /\ hist.last.f # 1

(* the first line that add wrote *)
LastPageNumber == doc.buffer[Len(doc.buffer) - hist.last.wrote + 1]

(* C12: the page counter of a multi-page Document starts at 0 and every    *)
(* add increments it, and the number add writes in the page-number         *)
(* directive, as sheet index and as ordinal, is the value of the counter   *)
(* after this add incremented it: the k-th add writes %%Page: k k.         *)
C12_PageNumberIsIncrementedCounter ==
    /\ (Live /\ doc.doc_type = "PS") => doc.page_count = Len(hist.adds)
    /\ (Live /\ hist.last.op \in {"new", "build"}) => doc.page_count = 0
    /\ NumberedAdd =>
          LastPageNumber = Ln("%%Page:", <<doc.page_count, doc.page_count>>)

C12_Witness ==
    /\ NumberedAdd
    /\ hist.last.f = 0
    /\ doc.page_count = 2
    /\ LastPageNumber = Ln("%%Page:", <<2, 2>>)

(* C12 as stated: the number written is the value the counter had before  *)
(* this add incremented it, the counter starting at 0.                     *)
C12_PageNumberIsPreIncrementCounter ==
    /\ (Live /\ hist.last.op \in {"new", "build"}) => doc.page_count = 0
    /\ NumberedAdd =>
          LastPageNumber
              = Ln("%%Page:", <<doc.page_count - 1, doc.page_count - 1>>)

-----------------------------------------------------------------------------
(* Procedures invoked by shape markup *)

(* the lines of the buffer that invoke a procedure by name *)
Invocations(b) == {i \in 1..Len(b) : b[i].op \in PathOps}

(* the names the preamble of the header defines *)
HeaderDefinitions ==
    UNION { {DefinedName(body) : body \in hist.header[j].bodies} :
              j \in {k \in 1..Len(hist.header) : IsPreamble(hist.header[k])} }

(* C13: in every Document that was constructed, through Document::new or   *)
(* through build with or without load_procedures, and whatever pages were  *)
(* added to it, each procedure name the shape markup invokes (rect, line)  *)
(* is defined in the preamble of the header, which precedes the first      *)
(* page.                                                                   *)
C13_InvokedProceduresDefined ==
    Live =>
        /\ SubSeq(doc.buffer, 1, Len(hist.header)) = hist.header
        /\ \A i \in Invocations(doc.buffer) :
              /\ i > Len(hist.header)
              /\ doc.buffer[i].op \in HeaderDefinitions

(* the part of C13 the code does meet: Document::new, and build after      *)
(* load_procedures was given the built-in registry                         *)
BuiltinsDefineInvoked ==
    (Live /\ (WasBuilt => built.registry = with_builtins)) =>
        /\ SubSeq(doc.buffer, 1, Len(hist.header)) = hist.header
        /\ \A i \in Invocations(doc.buffer) :
              /\ i > Len(hist.header)
              /\ doc.buffer[i].op \in HeaderDefinitions

=============================================================================
